---------------------------- MODULE Spec2Model ----------------------------
(***************************************************************************)
(* GroupScheduler backend: user / event / availability documents, the      *)
(* controllers that act on them and the mongoose lifecycle hooks           *)
(* (pre-save, pre-remove) that cascade between them.                       *)
(*                                                                         *)
(* Source files:                                                           *)
(*   src/server.mjs                              user controller           *)
(*   src/controllers/availabilityController.ts   availability controller   *)
(*                                               and the User model        *)
(*   src/unnamed/part_000                        the Event model           *)
(*                                                                         *)
(* Arrays of the documents are sequences (the code pushes duplicates).     *)
(* The identifier `Event` used by the user pre-remove hook is read as the  *)
(* Event model of src/unnamed/part_000.                                    *)
(***************************************************************************)
EXTENDS Integers, Sequences, FiniteSets, TLC

(***************************************************************************)
(* Bounds of the model.                                                    *)
(***************************************************************************)
MaxUsers == 2
MaxEvents == 2
MaxAvail == 2
MaxFollow == 2
NumCodes == 2
MaxProcs == 2
MaxKeys == 2

(***************************************************************************)
(* Program constants.                                                      *)
(***************************************************************************)
MinPasswordLength == 4
SessionExpiry == 1
SessionPersistentExpiry == 2

(***************************************************************************)
(* Value sets of the request inputs.  "" and <<>> are the falsy values of  *)
(* a missing field; a password is the sequence of its characters.          *)
(***************************************************************************)
None == "none"
NoId == 0
NoMail == <<>>
UserIds == 1 .. MaxUsers
EventIds == 1 .. MaxEvents
AvailIds == 1 .. MaxAvail
Codes == 1 .. NumCodes
Usernames == {"", "n1"}
NewUsernames == {"", "n2"}
Emails == {"", "bad", "a@x.com", "b@x.com"}
WellFormedEmails == {"a@x.com", "b@x.com"}
P3 == <<1, 1, 1>>
P4 == <<1, 1, 1, 1>>
P5 == <<2, 2, 2, 2, 2>>
Plaintexts == {P4, P5}
Passwords == {<<>>, P3, P4, P5}
NoCode == 0
UserCodeParams == {NoCode} \cup Codes
StayLoggedInValues == {"absent", "string_true", "boolean_true"}
ArmedExpiry == "armed"
Descriptions == {"", "d1"}
Dates == {0, 1}
Statuses == {"", "free"}
Preferences == {"", "p1"}

\* registration requests: the well-formed ones, and one with each defect
WellFormedRegistrations ==
    {r \in [username : {"n1"}, email : WellFormedEmails, password : {P4, P5},
            confirmPassword : {P4, P5}] : r.password = r.confirmPassword}
DefectiveRegistrations ==
    LET r == [username |-> "n1", email |-> "a@x.com", password |-> P4, confirmPassword |-> P4]
    IN  {[r EXCEPT !.username = ""], [r EXCEPT !.email = ""], [r EXCEPT !.email = "bad"],
         [r EXCEPT !.password = <<>>], [r EXCEPT !.confirmPassword = <<>>],
         [r EXCEPT !.confirmPassword = P5],
         [r EXCEPT !.password = P3, !.confirmPassword = P3]}
RegisterRequests == WellFormedRegistrations \cup DefectiveRegistrations
LoginRequests ==
    [email : WellFormedEmails, password : {P3, P4, P5}]
        \cup {[email |-> "", password |-> P4], [email |-> "a@x.com", password |-> <<>>],
              [email |-> "", password |-> <<>>]}
UpdateRequests == [newUsername : NewUsernames, newPassword : {<<>>, P5}, oldPassword : {<<>>, P4, P5}]
AvailabilityRequests ==
    [availabilityId : {NoId} \cup AvailIds, startDate : Dates, endDate : Dates, status : Statuses]

VARIABLES
    users,      \* the User collection: id -> document
    events,     \* the Event collection: id -> document
    avails,     \* the Availability collection: id -> document
    nextUser,   \* number of user ids handed out so far
    nextEvent,  \* number of event ids handed out so far
    nextAvail,  \* number of availability ids handed out so far
    session,    \* the client's session: logged-in user and cookie maxAge
    resp,       \* the last request: handler, error raised, confirmation mail sent
    confirmedCodes, \* history: the userCodes a confirmUser request has succeeded with
    procs,      \* in-flight requests (concurrent requests)
    lastAvail,  \* history: the id the last stored availability request named and the id it
                \* wrote; the last record created and the user whose request created it
    overlapped, \* history: a followUser and an unfollowUser request on the same pair of
                \* users have been in flight together
    vaultLoad   \* the start of the process: position in loadVaultSecrets, process.env,
                \* the keys listed and, as history, the reads attempted and failed

vars == <<users, events, avails, nextUser, nextEvent, nextAvail, session, resp, confirmedCodes, procs, lastAvail, overlapped, vaultLoad>>

(***************************************************************************)
(* Helpers on sequences.                                                   *)
(***************************************************************************)
Range(s) == {s[i] : i \in 1 .. Len(s)}

Filter(s, x) == SelectSeq(s, LAMBDA y : y # x)

(***************************************************************************)
(* A collection is a function from the ids of its stored documents.        *)
(***************************************************************************)
Put(coll, id, doc) == [x \in DOMAIN coll \cup {id} |-> IF x = id THEN doc ELSE coll[x]]

Del(coll, id) == [x \in DOMAIN coll \ {id} |-> coll[x]]

EmptyCollection == [x \in {} |-> x]

(***************************************************************************)
(* bcryptjs hash / compare and validator.isEmail.                          *)
(***************************************************************************)
hash(plain) == <<"bcrypt", plain>>

compare(candidate, digest) == digest = hash(candidate)

isEmail(email) == email \in WellFormedEmails

(***************************************************************************)
(* Queries on the collections.                                             *)
(***************************************************************************)
\* variant: the email lookup finds nothing
findNoEmail(us, email) == NoId

findOneByEmail(us, email) ==
    IF \E u \in DOMAIN us : us[u].email = email
    THEN CHOOSE u \in DOMAIN us : us[u].email = email
    ELSE NoId

findOneByUserCode(us, code) ==
    IF \E u \in DOMAIN us : us[u].userCode = code
    THEN CHOOSE u \in DOMAIN us : us[u].userCode = code
    ELSE NoId

findOneByEventCode(es, code) ==
    IF \E e \in DOMAIN es : es[e].eventCode = code
    THEN CHOOSE e \in DOMAIN es : es[e].eventCode = code
    ELSE NoId

(***************************************************************************)
(* The unique indexes of the schemas: a write of document doc under id is  *)
(* accepted only if no other stored document has its email / code.         *)
(***************************************************************************)
\* variant: the User schema declares no unique index
userIndexesAbsent(us, id, doc) == TRUE

userIndexesAccept(us, id, doc) ==
    \A u \in DOMAIN us \ {id} :
        us[u].email # doc.email /\ us[u].userCode # doc.userCode

eventIndexAccepts(es, id, doc) ==
    \A e \in DOMAIN es \ {id} : es[e].eventCode # doc.eventCode

(***************************************************************************)
(* The collision-retry loops: the codes a completed loop can return.       *)
(***************************************************************************)
\* variant: the drawn code is used without the lookup
generateAnyUserCode(us) == Codes

generateNewUserCode(us) == {c \in Codes : findOneByUserCode(us, c) = NoId}

generateNewEventCode(es) == {c \in Codes : findOneByEventCode(es, c) = NoId}

(***************************************************************************)
(* Answers and the session.                                                *)
(***************************************************************************)
Answer(op, err, mailed) == [op |-> op, err |-> err, mailed |-> mailed]

NoSession == [user |-> NoId, maxAge |-> 0]



isAuthenticated == session.user \in DOMAIN users

(***************************************************************************)
(* new UserModel({username, email, password}) with the schema defaults.    *)
(***************************************************************************)
NewUserDoc(username, email, password) ==
    [username |-> username, email |-> email, password |-> password,
     events |-> <<>>, availabilities |-> <<>>, following |-> <<>>,
     followers |-> <<>>, userCode |-> NoCode, confirmed |-> FALSE,
     expirationDate |-> ArmedExpiry]

(***************************************************************************)
(* registerUser: the checks made before the store is read, then the        *)
(* lookup of the email and the creation of the user.  userCode is the code *)
(* the retry loop of the pre-save hook returns.                            *)
(***************************************************************************)
\* variant: the length check is missing
registerValidationNoLength(username, email, password, confirmPassword) ==
    IF username = "" \/ email = "" \/ password = <<>> \/ confirmPassword = <<>>
    THEN "MissingFieldsError"
    ELSE IF ~isEmail(email) THEN "InvalidEmailError"
    ELSE IF password # confirmPassword THEN "InvalidCredentialsError"
    ELSE None

registerValidation(username, email, password, confirmPassword) ==
    IF username = "" \/ email = "" \/ password = <<>> \/ confirmPassword = <<>>
    THEN "MissingFieldsError"
    ELSE IF ~isEmail(email) THEN "InvalidEmailError"
    ELSE IF password # confirmPassword THEN "InvalidCredentialsError"
    ELSE IF Len(password) < MinPasswordLength THEN "InvalidCredentialsError"
    ELSE None

registerUser(username, email, password, confirmPassword, userCode) ==
    /\ UNCHANGED <<events, avails, nextEvent, nextAvail, session, confirmedCodes, procs, lastAvail, overlapped, vaultLoad>>
    /\ IF registerValidation(username, email, password, confirmPassword) # None
       THEN /\ resp' = Answer("registerUser",
                              registerValidation(username, email, password, confirmPassword),
                              NoMail)
            /\ UNCHANGED <<users, nextUser>>
       ELSE LET existingUser == findOneByEmail(users, email) IN
            IF existingUser = NoId
            THEN /\ nextUser < MaxUsers
                 /\ userCode \in generateNewUserCode(users)
                 /\ LET id == nextUser + 1
                        savedUser == [NewUserDoc(username, email, hash(password))
                                         EXCEPT !.userCode = userCode]
                    IN  IF userIndexesAccept(users, id, savedUser)
                        THEN /\ users' = Put(users, id, savedUser)
                             /\ nextUser' = id
                             /\ resp' = Answer("registerUser", None, <<email, userCode>>)
                        ELSE /\ resp' = Answer("registerUser", "MongoServerError", NoMail)
                             /\ UNCHANGED <<users, nextUser>>
            ELSE IF ~users[existingUser].confirmed
            THEN /\ resp' = Answer("registerUser", "UserNotConfirmedError",
                                   <<email, users[existingUser].userCode>>)
                 /\ UNCHANGED <<users, nextUser>>
            ELSE /\ resp' = Answer("registerUser", "EmailAlreadyExistsError", NoMail)
                 /\ UNCHANGED <<users, nextUser>>

(***************************************************************************)
(* confirmUser                                                             *)
(***************************************************************************)
\* variant: the check of user.confirmed is missing
confirmUserUnchecked(userCode) ==
    /\ UNCHANGED <<events, avails, nextUser, nextEvent, nextAvail, session, procs, lastAvail, overlapped, vaultLoad>>
    /\ IF userCode = NoCode
       THEN /\ resp' = Answer("confirmUser", "MissingFieldsError", NoMail)
            /\ UNCHANGED <<users, confirmedCodes, lastAvail>>
       ELSE LET user == findOneByUserCode(users, userCode) IN
            IF user = NoId
            THEN /\ resp' = Answer("confirmUser", "InvalidConfirmationCodeError", NoMail)
                 /\ UNCHANGED <<users, confirmedCodes, lastAvail>>
            ELSE /\ users' = [users EXCEPT ![user].confirmed = TRUE,
                                           ![user].expirationDate = None]
                 /\ confirmedCodes' = confirmedCodes \cup {userCode}
                 /\ resp' = Answer("confirmUser", None, NoMail)

confirmUser(userCode) ==
    /\ UNCHANGED <<events, avails, nextUser, nextEvent, nextAvail, session, procs, lastAvail, overlapped, vaultLoad>>
    /\ IF userCode = NoCode
       THEN /\ resp' = Answer("confirmUser", "MissingFieldsError", NoMail)
            /\ UNCHANGED <<users, confirmedCodes, lastAvail>>
       ELSE LET user == findOneByUserCode(users, userCode) IN
            IF user = NoId
            THEN /\ resp' = Answer("confirmUser", "InvalidConfirmationCodeError", NoMail)
                 /\ UNCHANGED <<users, confirmedCodes, lastAvail>>
            ELSE IF users[user].confirmed
            THEN /\ resp' = Answer("confirmUser", "UserAlreadyConfirmedError", NoMail)
                 /\ UNCHANGED <<users, confirmedCodes, lastAvail>>
            ELSE /\ users' = [users EXCEPT ![user].confirmed = TRUE,
                                           ![user].expirationDate = None]
                 /\ confirmedCodes' = confirmedCodes \cup {userCode}
                 /\ resp' = Answer("confirmUser", None, NoMail)

(***************************************************************************)
(* The passport local strategy: the user the credentials authenticate.     *)
(***************************************************************************)
localStrategy(email, password) ==
    LET user == findOneByEmail(users, email) IN
    IF user # NoId /\ compare(password, users[user].password) THEN user ELSE NoId

(***************************************************************************)
(* loginUserLocal and logoutUser                                           *)
(***************************************************************************)
loginUserLocal(email, password, stayLoggedIn) ==
    /\ UNCHANGED <<users, events, avails, nextUser, nextEvent, nextAvail, confirmedCodes, procs, lastAvail, overlapped, vaultLoad>>
    /\ IF email = "" \/ password = <<>>
       THEN /\ resp' = Answer("loginUserLocal", "MissingFieldsError", NoMail)
            /\ UNCHANGED session
       ELSE LET user == localStrategy(email, password) IN
            IF user = NoId
            THEN /\ resp' = Answer("loginUserLocal", "401", NoMail)
                 /\ UNCHANGED session
            ELSE /\ session' = [user |-> user,
                                maxAge |-> IF stayLoggedIn = "string_true"
                                           THEN SessionPersistentExpiry * 1000
                                           ELSE SessionExpiry * 1000]
                 /\ resp' = Answer("loginUserLocal", None, NoMail)

logoutUser ==
    /\ session' = NoSession
    /\ resp' = Answer("logoutUser", None, NoMail)
    /\ UNCHANGED <<users, events, avails, nextUser, nextEvent, nextAvail, confirmedCodes, procs, lastAvail, overlapped, vaultLoad>>

(***************************************************************************)
(* newCode                                                                 *)
(***************************************************************************)
newCode(userCode) ==
    /\ isAuthenticated
    /\ userCode \in generateNewUserCode(users)
    /\ LET user == session.user
           doc == [users[user] EXCEPT !.userCode = userCode]
       IN  IF userIndexesAccept(users, user, doc)
           THEN /\ users' = Put(users, user, doc)
                /\ resp' = Answer("newCode", None, NoMail)
           ELSE /\ resp' = Answer("newCode", "MongoServerError", NoMail)
                /\ UNCHANGED users
    /\ UNCHANGED <<events, avails, nextUser, nextEvent, nextAvail, session, confirmedCodes, procs, lastAvail, overlapped, vaultLoad>>

(***************************************************************************)
(* followUser and unfollowUser.  `followedUser._id === user.id` compares   *)
(* an ObjectId with the string form of an ObjectId.                        *)
(***************************************************************************)
ObjectId(n) == <<"ObjectId", n>>

IdString(n) == <<"string", n>>

strictEquals(x, y) == x = y

push(us, id, field, x) ==
    IF id \in DOMAIN us
    THEN [us EXCEPT ![id] = [@ EXCEPT ![field] = Append(@, x)]]
    ELSE us

\* variant: the update removes the first occurrence only
pullFirst(us, id, field, x) ==
    IF id \in DOMAIN us
    THEN LET s == us[id][field]
             hits == {i \in 1 .. Len(s) : s[i] = x}
         IN  IF hits = {} THEN us
             ELSE LET k == CHOOSE i \in hits : \A j \in hits : i <= j
                  IN  [us EXCEPT ![id] = [@ EXCEPT ![field] =
                          SubSeq(s, 1, k - 1) \o SubSeq(s, k + 1, Len(s))]]
    ELSE us

pull(us, id, field, x) ==
    IF id \in DOMAIN us
    THEN [us EXCEPT ![id] = [@ EXCEPT ![field] = Filter(@, x)]]
    ELSE us

\* variant: the second update pushes onto the followers of the followed user
followUserFollowers(followedUserId) ==
    /\ isAuthenticated
    /\ UNCHANGED <<events, avails, nextUser, nextEvent, nextAvail, session, confirmedCodes, procs, lastAvail, overlapped, vaultLoad>>
    /\ LET user == session.user IN
       IF followedUserId \notin DOMAIN users
       THEN /\ resp' = Answer("followUser", "UserNotFoundError", NoMail)
            /\ UNCHANGED users
       ELSE /\ Len(users[user].following) < MaxFollow
            /\ Len(users[followedUserId].followers) < MaxFollow
            /\ users' = push(push(users, user, "following", followedUserId),
                             followedUserId, "followers", user)
            /\ resp' = Answer("followUser", None, NoMail)

followUser(followedUserId) ==
    /\ isAuthenticated
    /\ UNCHANGED <<events, avails, nextUser, nextEvent, nextAvail, session, confirmedCodes, procs, lastAvail, overlapped, vaultLoad>>
    /\ LET user == session.user IN
       IF followedUserId \notin DOMAIN users
       THEN /\ resp' = Answer("followUser", "UserNotFoundError", NoMail)
            /\ UNCHANGED users
       ELSE IF strictEquals(ObjectId(followedUserId), IdString(user))
       THEN /\ resp' = Answer("followUser", "UserNotFoundError", NoMail)
            /\ UNCHANGED users
       ELSE /\ Len(users[user].following) < MaxFollow
            /\ Len(users[followedUserId].following) < MaxFollow
            /\ users' = push(push(users, user, "following", followedUserId),
                             followedUserId, "following", user)
            /\ resp' = Answer("followUser", None, NoMail)

unfollowUser(followedUserId) ==
    /\ isAuthenticated
    /\ UNCHANGED <<events, avails, nextUser, nextEvent, nextAvail, session, confirmedCodes, procs, lastAvail, overlapped, vaultLoad>>
    /\ LET user == session.user IN
       IF followedUserId \notin DOMAIN users
       THEN /\ resp' = Answer("unfollowUser", "UserNotFoundError", NoMail)
            /\ UNCHANGED users
       ELSE IF strictEquals(ObjectId(followedUserId), IdString(user))
       THEN /\ resp' = Answer("unfollowUser", "UserNotFoundError", NoMail)
            /\ UNCHANGED users
       ELSE /\ users' = pull(pull(users, user, "following", followedUserId),
                             followedUserId, "following", user)
            /\ resp' = Answer("unfollowUser", None, NoMail)

(***************************************************************************)
(* updateUser: the result of comparePassword is not used.                  *)
(***************************************************************************)
comparePassword(us, user, candidatePassword) == compare(candidatePassword, us[user].password)

\* variant: the pre-save hook hashes the password on every save
updateUserRehash(newUsername, newPassword, oldPassword) ==
    /\ isAuthenticated
    /\ UNCHANGED <<events, avails, nextUser, nextEvent, nextAvail, session, confirmedCodes, procs, lastAvail, overlapped, vaultLoad>>
    /\ LET user == session.user
           named == IF newUsername # "" THEN [users[user] EXCEPT !.username = newUsername]
                    ELSE users[user]
           saved == IF newPassword # <<>> /\ oldPassword # <<>>
                    THEN [named EXCEPT !.password = hash(newPassword)]
                    ELSE [named EXCEPT !.password = hash(@)]
       IN  /\ users' = Put(users, user, saved)
           /\ resp' = Answer("updateUser", None, NoMail)

updateUser(newUsername, newPassword, oldPassword) ==
    /\ isAuthenticated
    /\ UNCHANGED <<events, avails, nextUser, nextEvent, nextAvail, session, confirmedCodes, procs, lastAvail, overlapped, vaultLoad>>
    /\ LET user == session.user
           named == IF newUsername # "" THEN [users[user] EXCEPT !.username = newUsername]
                    ELSE users[user]
           saved == IF newPassword # <<>> /\ oldPassword # <<>>
                    THEN [named EXCEPT !.password = hash(newPassword)]
                    ELSE named
       IN  /\ users' = Put(users, user, saved)
           /\ resp' = Answer("updateUser", None, NoMail)

(***************************************************************************)
(* newOrUpdateAvailability.  The push onto populatedUser.availabilities    *)
(* is not followed by a save of the user.                                  *)
(***************************************************************************)
newOrUpdateAvailability(availabilityId, description, startDate, endDate, status, preference) ==
    /\ isAuthenticated
    /\ UNCHANGED <<users, events, nextUser, nextEvent, session, confirmedCodes, procs, overlapped, vaultLoad>>
    /\ IF availabilityId = NoId \/ startDate = 0 \/ endDate = 0 \/ status = ""
       THEN /\ resp' = Answer("newOrUpdateAvailability", "MissingFieldsError", NoMail)
            /\ UNCHANGED <<avails, nextAvail, lastAvail>>
       ELSE IF availabilityId \in DOMAIN avails
       THEN LET existingAvailability == avails[availabilityId] IN
            /\ avails' = Put(avails, availabilityId,
                   [description |-> IF description # "" THEN description
                                    ELSE existingAvailability.description,
                    startDate |-> startDate, endDate |-> endDate, status |-> status,
                    preference |-> IF preference # "" THEN preference
                                   ELSE existingAvailability.preference])
            /\ resp' = Answer("newOrUpdateAvailability", None, NoMail)
            /\ lastAvail' = [lastAvail EXCEPT !.requested = availabilityId,
                                              !.written = availabilityId]
            /\ UNCHANGED nextAvail
       ELSE /\ nextAvail < MaxAvail
            /\ avails' = Put(avails, nextAvail + 1,
                   [description |-> description, startDate |-> startDate,
                    endDate |-> endDate, status |-> status, preference |-> preference])
            /\ nextAvail' = nextAvail + 1
            /\ lastAvail' = [requested |-> availabilityId, written |-> nextAvail + 1,
                             created |-> nextAvail + 1, by |-> session.user]
            /\ resp' = Answer("newOrUpdateAvailability", None, NoMail)

(***************************************************************************)
(* getAvailabilities: the availabilities list of a fresh load of the user, *)
(* populated (references to missing records are dropped).                  *)
(***************************************************************************)
getAvailabilities(us, av, user) ==
    SelectSeq(us[user].availabilities, LAMBDA a : a \in DOMAIN av)

(***************************************************************************)
(* Event model: pre-remove hook, remove(), pre-save hook and save().       *)
(***************************************************************************)
Result(es, us, err) == [events |-> es, users |-> us, err |-> err]

\* variant: the loop ends after its first participant
scrubFirstParticipant(participants, us, eventId) ==
    IF participants = <<>> THEN [users |-> us, err |-> None]
    ELSE LET participantId == Head(participants) IN
         IF participantId \notin DOMAIN us
         THEN [users |-> us, err |-> "UserNotFoundError"]
         ELSE [users |-> [us EXCEPT ![participantId].events = Filter(@, eventId)],
               err |-> None]

RECURSIVE scrubParticipants(_, _, _)
scrubParticipants(participants, us, eventId) ==
    IF participants = <<>> THEN [users |-> us, err |-> None]
    ELSE LET participantId == Head(participants) IN
         IF participantId \notin DOMAIN us
         THEN [users |-> us, err |-> "UserNotFoundError"]
         ELSE scrubParticipants(Tail(participants),
                  [us EXCEPT ![participantId].events = Filter(@, eventId)], eventId)

eventRemove(es, us, eventId, doc) ==
    LET r == scrubParticipants(doc.participants, us, eventId) IN
    IF r.err # None THEN Result(es, r.users, r.err)
    ELSE Result(Del(es, eventId), r.users, None)

\* strict: whether save() reports an update that matched no document
eventSave(es, us, eventId, doc, isNew, strict) ==
    LET hook == IF doc.participants = <<>> THEN eventRemove(es, us, eventId, doc)
                ELSE Result(es, us, None)
    IN  IF hook.err # None THEN hook
        ELSE IF isNew
        THEN IF eventIndexAccepts(hook.events, eventId, doc)
             THEN Result(Put(hook.events, eventId, doc), hook.users, None)
             ELSE Result(hook.events, hook.users, "MongoServerError")
        ELSE IF eventId \in DOMAIN hook.events
        THEN IF eventIndexAccepts(hook.events, eventId, doc)
             THEN Result(Put(hook.events, eventId, doc), hook.users, None)
             ELSE Result(hook.events, hook.users, "MongoServerError")
        ELSE Result(hook.events, hook.users,
                    IF strict THEN "DocumentNotFoundError" ELSE None)

(***************************************************************************)
(* User model: pre-remove hook and remove().                               *)
(***************************************************************************)
RECURSIVE scrubFollowers(_, _, _)
scrubFollowers(followers, us, userId) ==
    IF followers = <<>> THEN [users |-> us, err |-> None]
    ELSE LET followerId == Head(followers) IN
         IF followerId \notin DOMAIN us
         THEN [users |-> us, err |-> "UserNotFoundError"]
         ELSE scrubFollowers(Tail(followers),
                  [us EXCEPT ![followerId].following = Filter(@, userId)], userId)

RECURSIVE scrubEvents(_, _, _, _, _)
scrubEvents(evs, es, us, userId, strict) ==
    IF evs = <<>> THEN Result(es, us, None)
    ELSE LET eventId == Head(evs) IN
         IF eventId \notin DOMAIN es
         THEN Result(es, us, "EventNotFoundError")
         ELSE LET doc == [es[eventId] EXCEPT !.participants = Filter(@, userId)]
                  r == eventSave(es, us, eventId, doc, FALSE, strict)
              IN  IF r.err # None THEN r
                  ELSE scrubEvents(Tail(evs), r.events, r.users, userId, strict)

\* variant: the user is deleted although the hook passed an error to next
userRemoveDespiteError(es, us, userId, strict) ==
    LET f == scrubFollowers(us[userId].followers, us, userId) IN
    IF f.err # None THEN Result(es, Del(f.users, userId), f.err)
    ELSE LET r == scrubEvents(us[userId].events, es, f.users, userId, strict) IN
         Result(r.events, Del(r.users, userId), r.err)

userRemove(es, us, userId, strict) ==
    LET f == scrubFollowers(us[userId].followers, us, userId) IN
    IF f.err # None THEN Result(es, f.users, f.err)
    ELSE LET r == scrubEvents(us[userId].events, es, f.users, userId, strict) IN
         IF r.err # None THEN r
         ELSE Result(r.events, Del(r.users, userId), None)

removeUser(userId, strict) ==
    /\ userId \in DOMAIN users
    /\ LET r == userRemove(events, users, userId, strict) IN
       /\ users' = r.users
       /\ events' = r.events
       /\ resp' = Answer("removeUser", r.err, NoMail)
    /\ UNCHANGED <<avails, nextUser, nextEvent, nextAvail, session, confirmedCodes, procs, lastAvail, overlapped, vaultLoad>>

removeEvent(eventId) ==
    /\ eventId \in DOMAIN events
    /\ LET r == eventRemove(events, users, eventId, events[eventId]) IN
       /\ users' = r.users
       /\ events' = r.events
       /\ resp' = Answer("removeEvent", r.err, NoMail)
    /\ UNCHANGED <<avails, nextUser, nextEvent, nextAvail, session, confirmedCodes, procs, lastAvail, overlapped, vaultLoad>>

(***************************************************************************)
(* The TTL index on expirationDate: the store deletes the document.        *)
(***************************************************************************)
\* variant: the index deletes documents whatever their expirationDate
ttlExpireAny(userId) ==
    /\ userId \in DOMAIN users
    /\ users' = Del(users, userId)
    /\ resp' = Answer("ttlExpire", None, NoMail)
    /\ UNCHANGED <<events, avails, nextUser, nextEvent, nextAvail, session, confirmedCodes, procs, lastAvail, overlapped, vaultLoad>>

ttlExpire(userId) ==
    /\ userId \in DOMAIN users
    /\ users[userId].expirationDate = ArmedExpiry
    /\ users' = Del(users, userId)
    /\ resp' = Answer("ttlExpire", None, NoMail)
    /\ UNCHANGED <<events, avails, nextUser, nextEvent, nextAvail, session, confirmedCodes, procs, lastAvail, overlapped, vaultLoad>>

(***************************************************************************)
(* Event membership: creating an event and joining one.                    *)
(***************************************************************************)
createEvent(withCreator, strict, eventCode) ==
    /\ isAuthenticated
    /\ nextEvent < MaxEvents
    /\ eventCode \in generateNewEventCode(events)
    /\ LET user == session.user
           id == nextEvent + 1
           doc == [participants |-> IF withCreator THEN <<user>> ELSE <<>>,
                   admins |-> <<>>, eventCode |-> eventCode]
           r == eventSave(events, users, id, doc, TRUE, strict)
       IN  /\ events' = r.events
           /\ users' = IF r.err = None /\ withCreator
                       THEN push(r.users, user, "events", id) ELSE r.users
           /\ nextEvent' = id
           /\ resp' = Answer("createEvent", r.err, NoMail)
    /\ UNCHANGED <<avails, nextUser, nextAvail, session, confirmedCodes, procs, lastAvail, overlapped, vaultLoad>>

joinEvent(eventId, strict) ==
    /\ isAuthenticated
    /\ eventId \in DOMAIN events
    /\ session.user \notin Range(events[eventId].participants)
    /\ eventId \notin Range(users[session.user].events)
    /\ LET user == session.user
           doc == [events[eventId] EXCEPT !.participants = Append(@, user)]
           r == eventSave(events, users, eventId, doc, FALSE, strict)
       IN  /\ events' = r.events
           /\ users' = IF r.err = None THEN push(r.users, user, "events", eventId)
                       ELSE r.users
           /\ resp' = Answer("joinEvent", r.err, NoMail)
    /\ UNCHANGED <<avails, nextUser, nextEvent, nextAvail, session, confirmedCodes, procs, lastAvail, overlapped, vaultLoad>>

\* the methods of the Event model that read admins
isAdmin(event, userId) == userId \in Range(event.admins)

isLocked(event) == event.admins # <<>>

\* a participant of the event is listed as one of its admins
addAdmin(eventId, strict) ==
    /\ isAuthenticated
    /\ eventId \in DOMAIN events
    /\ session.user \in Range(events[eventId].participants)
    /\ ~isAdmin(events[eventId], session.user)
    /\ LET doc == [events[eventId] EXCEPT !.admins = Append(@, session.user)]
           r == eventSave(events, users, eventId, doc, FALSE, strict)
       IN  /\ events' = r.events
           /\ users' = r.users
           /\ resp' = Answer("addAdmin", r.err, NoMail)
    /\ UNCHANGED <<avails, nextUser, nextEvent, nextAvail, session, confirmedCodes, procs, lastAvail, overlapped, vaultLoad>>

(***************************************************************************)
(* loadVaultSecrets.  The keys are numbered; process.env maps each key to  *)
(* a string or to Unset.  The function suspends at vault.list and at each  *)
(* vault.read.                                                             *)
(***************************************************************************)
VaultKeys == 1 .. MaxKeys

Unset == "<unset>"

Undefined == "<undefined>"

\* what process.env holds for a key when the process starts
PresetValues == {Unset, "", "v0"}

\* response.data.data[key] of a read that resolves
SecretValues == {Undefined, "", "v1"}

\* an assignment to a property of process.env stores the value as a string
String(value) == IF value = Undefined THEN "undefined" ELSE value

\* !process.env[key]
falsy(value) == value = Unset \/ value = ""

\* vaultMetadata.data.keys: the listed keys, each once
KeyLists ==
    {keys \in UNION {[1 .. n -> VaultKeys] : n \in 0 .. MaxKeys} :
        \A i \in 1 .. Len(keys), j \in 1 .. Len(keys) : keys[i] = keys[j] => i = j}

NotStarted ==
    [pc |-> "start", nodeEnv |-> "", env |-> [key \in VaultKeys |-> Unset],
     env0 |-> [key \in VaultKeys |-> Unset], listed |-> FALSE, keys |-> <<>>, next |-> 1,
     attempted |-> {}, failed |-> {}, exitCode |-> 0]

\* the call of loadVaultSecrets in a process started with nodeEnv and env
loadVaultSecrets(nodeEnv, env) ==
    /\ vaultLoad.pc = "start"
    /\ vaultLoad' = [vaultLoad EXCEPT !.nodeEnv = nodeEnv, !.env = env, !.env0 = env,
                        !.pc = IF nodeEnv # "production" THEN "returned" ELSE "list"]
    /\ UNCHANGED <<users, events, avails, nextUser, nextEvent, nextAvail, session, resp, confirmedCodes, procs, lastAvail, overlapped>>

\* vault.list resolves with the keys, or rejects: the outer catch exits
listKeys(rejects, keys) ==
    /\ vaultLoad.pc = "list"
    /\ vaultLoad' = IF rejects
                    THEN [vaultLoad EXCEPT !.pc = "exited", !.exitCode = 1]
                    ELSE [vaultLoad EXCEPT !.listed = TRUE, !.keys = keys,
                                           !.pc = IF keys = <<>> THEN "check" ELSE "read"]
    /\ UNCHANGED <<users, events, avails, nextUser, nextEvent, nextAvail, session, resp, confirmedCodes, procs, lastAvail, overlapped>>

\* variant: a failed read is not caught in the loop and reaches the outer catch
readSecretUncaught(rejects, secretValue) ==
    /\ vaultLoad.pc = "read"
    /\ LET key == vaultLoad.keys[vaultLoad.next] IN
       vaultLoad' = IF rejects
                    THEN [vaultLoad EXCEPT !.attempted = @ \cup {key}, !.failed = @ \cup {key},
                                           !.pc = "exited", !.exitCode = 1]
                    ELSE [vaultLoad EXCEPT !.attempted = @ \cup {key},
                                           !.env[key] = String(secretValue),
                                           !.next = @ + 1,
                                           !.pc = IF vaultLoad.next = Len(vaultLoad.keys)
                                                  THEN "check" ELSE "read"]
    /\ UNCHANGED <<users, events, avails, nextUser, nextEvent, nextAvail, session, resp, confirmedCodes, procs, lastAvail, overlapped>>

\* one iteration of the loop over the keys: vault.read resolves and the value
\* is stored in process.env, or rejects and the inner catch logs the error
readSecret(rejects, secretValue) ==
    /\ vaultLoad.pc = "read"
    /\ LET key == vaultLoad.keys[vaultLoad.next] IN
       vaultLoad' = [vaultLoad EXCEPT
                        !.attempted = @ \cup {key},
                        !.failed = IF rejects THEN @ \cup {key} ELSE @,
                        !.env[key] = IF rejects THEN @ ELSE String(secretValue),
                        !.next = @ + 1,
                        !.pc = IF vaultLoad.next = Len(vaultLoad.keys) THEN "check" ELSE "read"]
    /\ UNCHANGED <<users, events, avails, nextUser, nextEvent, nextAvail, session, resp, confirmedCodes, procs, lastAvail, overlapped>>

missingKeys(keys, env) == SelectSeq(keys, LAMBDA key : falsy(env[key]))

\* the check after the loop: a missing key throws into the outer catch
checkMissingKeys ==
    /\ vaultLoad.pc = "check"
    /\ vaultLoad' = IF Len(missingKeys(vaultLoad.keys, vaultLoad.env)) # 0
                    THEN [vaultLoad EXCEPT !.pc = "exited", !.exitCode = 1]
                    ELSE [vaultLoad EXCEPT !.pc = "returned"]
    /\ UNCHANGED <<users, events, avails, nextUser, nextEvent, nextAvail, session, resp, confirmedCodes, procs, lastAvail, overlapped>>

(***************************************************************************)
(* Initial state: empty collections, no session.                           *)
(***************************************************************************)
Init ==
    /\ users = EmptyCollection
    /\ events = EmptyCollection
    /\ avails = EmptyCollection
    /\ nextUser = 0
    /\ nextEvent = 0
    /\ nextAvail = 0
    /\ session = NoSession
    /\ resp = Answer(None, None, NoMail)
    /\ confirmedCodes = {}
    /\ procs = {}
    /\ lastAvail = [requested |-> NoId, written |-> NoId, created |-> NoId, by |-> NoId]
    /\ overlapped = FALSE
    /\ vaultLoad = NotStarted

(***************************************************************************)
(* The codes nanoid draws are inputs of the requests.  Specifications in   *)
(* which the codes play no part fix the generator: the loop returns the    *)
(* least free code.                                                        *)
(***************************************************************************)
LeastOf(S) == {c \in S : \A d \in S : c <= d}

FixedUserCode == LeastOf(generateNewUserCode(users))

FixedEventCode == LeastOf(generateNewEventCode(events))

FixedPassword == P4

(***************************************************************************)
(* Accounts: registration, confirmation, sessions, new codes, TTL expiry.  *)
(***************************************************************************)
NextAccount ==
    \/ \E r \in RegisterRequests, userCode \in Codes :
          registerUser(r.username, r.email, r.password, r.confirmPassword, userCode)
    \/ \E userCode \in UserCodeParams : confirmUser(userCode)
    \/ \E r \in LoginRequests : loginUserLocal(r.email, r.password, "absent")
    \/ logoutUser
    \/ \E userCode \in Codes : newCode(userCode)
    \/ \E userId \in UserIds : ttlExpire(userId)

SpecAccount == Init /\ [][NextAccount]_vars

(***************************************************************************)
(* Request validation: the four handlers that validate their input.        *)
(***************************************************************************)
NextValidation ==
    \/ \E r \in RegisterRequests, userCode \in FixedUserCode :
          registerUser(r.username, r.email, r.password, r.confirmPassword, userCode)
    \/ \E userCode \in UserCodeParams : confirmUser(userCode)
    \/ \E r \in LoginRequests : loginUserLocal(r.email, r.password, "absent")
    \/ \E r \in AvailabilityRequests :
          newOrUpdateAvailability(r.availabilityId, "d1", r.startDate, r.endDate, r.status, "")

SpecValidation == Init /\ [][NextValidation]_vars

(***************************************************************************)
(* Profile: a registered user logs in and updates username and password.   *)
(***************************************************************************)
NextProfile ==
    \/ \E email \in WellFormedEmails, userCode \in FixedUserCode :
          registerUser("n1", email, FixedPassword, FixedPassword, userCode)
    \/ \E r \in LoginRequests : loginUserLocal(r.email, r.password, "absent")
    \/ \E r \in UpdateRequests : updateUser(r.newUsername, r.newPassword, r.oldPassword)

SpecProfile == Init /\ [][NextProfile]_vars

(***************************************************************************)
(* Events: users create, join and remove events, and are removed.          *)
(***************************************************************************)
NextEvents ==
    \/ \E email \in WellFormedEmails, userCode \in FixedUserCode :
          registerUser("n1", email, FixedPassword, FixedPassword, userCode)
    \/ \E email \in WellFormedEmails : loginUserLocal(email, FixedPassword, "absent")
    \/ \E withCreator \in BOOLEAN, strict \in BOOLEAN, eventCode \in FixedEventCode :
          createEvent(withCreator, strict, eventCode)
    \/ \E eventId \in EventIds, strict \in BOOLEAN : joinEvent(eventId, strict)
    \/ \E eventId \in EventIds : removeEvent(eventId)
    \/ \E userId \in UserIds, strict \in BOOLEAN : removeUser(userId, strict)

SpecEvents == Init /\ [][NextEvents]_vars

(***************************************************************************)
(* Social graph and events together: follow and unfollow next to the       *)
(* event and removal requests.                                             *)
(***************************************************************************)
NextGraph ==
    \/ \E email \in WellFormedEmails, userCode \in FixedUserCode :
          registerUser("n1", email, FixedPassword, FixedPassword, userCode)
    \/ \E userCode \in Codes : confirmUser(userCode)
    \/ \E email \in WellFormedEmails : loginUserLocal(email, FixedPassword, "absent")
    \/ \E followedUserId \in UserIds : followUser(followedUserId)
    \/ \E followedUserId \in UserIds : unfollowUser(followedUserId)
    \/ \E withCreator \in BOOLEAN, strict \in BOOLEAN, eventCode \in FixedEventCode :
          createEvent(withCreator, strict, eventCode)
    \/ \E eventId \in EventIds, strict \in BOOLEAN : joinEvent(eventId, strict)
    \/ \E eventId \in EventIds : removeEvent(eventId)
    \/ \E userId \in UserIds, strict \in BOOLEAN : removeUser(userId, strict)
    \/ \E userId \in UserIds : ttlExpire(userId)

SpecGraph == Init /\ [][NextGraph]_vars

(***************************************************************************)
(* Sessions: registered users log in with each form of stayLoggedIn and    *)
(* log out.                                                                *)
(***************************************************************************)
NextSession ==
    \/ \E r \in WellFormedRegistrations, userCode \in FixedUserCode :
          registerUser(r.username, r.email, r.password, r.confirmPassword, userCode)
    \/ \E r \in LoginRequests, stayLoggedIn \in StayLoggedInValues :
          loginUserLocal(r.email, r.password, stayLoggedIn)
    \/ logoutUser

SpecSession == Init /\ [][NextSession]_vars

(***************************************************************************)
(* Following: registered users log in, follow and unfollow; unconfirmed    *)
(* users expire.                                                           *)
(***************************************************************************)
NextFollow ==
    \/ \E email \in WellFormedEmails, userCode \in FixedUserCode :
          registerUser("n1", email, FixedPassword, FixedPassword, userCode)
    \/ \E email \in WellFormedEmails : loginUserLocal(email, FixedPassword, "absent")
    \/ \E followedUserId \in UserIds : followUser(followedUserId)
    \/ \E followedUserId \in UserIds : unfollowUser(followedUserId)
    \/ \E userId \in UserIds : ttlExpire(userId)

SpecFollow == Init /\ [][NextFollow]_vars

(***************************************************************************)
(* Passwords: the requests of one user that save its document, with and    *)
(* without a change of password.                                           *)
(***************************************************************************)
PasswordEmail == "a@x.com"

NextPassword ==
    \/ \E userCode \in FixedUserCode :
          registerUser("n1", PasswordEmail, FixedPassword, FixedPassword, userCode)
    \/ \E password \in Plaintexts : loginUserLocal(PasswordEmail, password, "absent")
    \/ \E r \in UpdateRequests : updateUser(r.newUsername, r.newPassword, r.oldPassword)
    \/ \E userCode \in Codes : confirmUser(userCode)
    \/ \E userCode \in FixedUserCode : newCode(userCode)
    \/ \E eventCode \in FixedEventCode : createEvent(TRUE, TRUE, eventCode)
    \/ \E eventId \in EventIds : removeEvent(eventId)

SpecPassword == Init /\ [][NextPassword]_vars

(***************************************************************************)
(* Availabilities: registered users log in and send availability requests  *)
(* with every form of description and preference.                          *)
(***************************************************************************)
NextAvailability ==
    \/ \E email \in WellFormedEmails, userCode \in FixedUserCode :
          registerUser("n1", email, FixedPassword, FixedPassword, userCode)
    \/ \E email \in WellFormedEmails : loginUserLocal(email, FixedPassword, "absent")
    \/ \E r \in AvailabilityRequests, description \in Descriptions, preference \in Preferences :
          newOrUpdateAvailability(r.availabilityId, description, r.startDate, r.endDate,
                                  r.status, preference)

SpecAvailability == Init /\ [][NextAvailability]_vars

(***************************************************************************)
(* Event administration: participants become admins of events, and users   *)
(* are removed.                                                            *)
(***************************************************************************)
NextAdmins ==
    \/ \E email \in WellFormedEmails, userCode \in FixedUserCode :
          registerUser("n1", email, FixedPassword, FixedPassword, userCode)
    \/ \E email \in WellFormedEmails : loginUserLocal(email, FixedPassword, "absent")
    \/ \E eventCode \in FixedEventCode : createEvent(TRUE, TRUE, eventCode)
    \/ \E eventId \in EventIds : joinEvent(eventId, TRUE)
    \/ \E eventId \in EventIds : addAdmin(eventId, TRUE)
    \/ \E userId \in UserIds : removeUser(userId, TRUE)

SpecAdmins == Init /\ [][NextAdmins]_vars

(***************************************************************************)
(* Concurrent requests.  A request that generates a code suspends at each  *)
(* database call: after the lookup of the drawn code (pc = "draw" until a  *)
(* free code is drawn) and at the save.  Each request has its own client,  *)
(* so its user is a field of the request.  procs is the set of requests in *)
(* flight; two requests in the same position on the same document act as   *)
(* one.                                                                    *)
(***************************************************************************)
Running(kind, user, email, target) ==
    [pc |-> "draw", kind |-> kind, user |-> user, email |-> email,
     target |-> target, code |-> NoCode]

\* registerUser up to the save of the new user: validation and email lookup
beginRegister(username, email, password) ==
    /\ Cardinality(procs) < MaxProcs
    /\ username # "" /\ isEmail(email) /\ Len(password) >= MinPasswordLength
    /\ findOneByEmail(users, email) = NoId
    /\ nextUser < MaxUsers
    /\ nextUser' = nextUser + 1
    /\ procs' = procs \cup {Running("registerUser", nextUser + 1, email, NoId)}
    /\ UNCHANGED <<users, events, avails, nextEvent, nextAvail, session, resp, confirmedCodes, lastAvail, overlapped, vaultLoad>>

\* newCode for the authenticated user of the request
beginNewCode(user) ==
    /\ Cardinality(procs) < MaxProcs
    /\ user \in DOMAIN users
    /\ Running("newCode", user, "", NoId) \notin procs
    /\ procs' = procs \cup {Running("newCode", user, "", NoId)}
    /\ UNCHANGED <<users, events, avails, nextUser, nextEvent, nextAvail, session, resp, confirmedCodes, lastAvail, overlapped, vaultLoad>>

\* the save of a new event document with one participant
beginEventSave(user) ==
    /\ Cardinality(procs) < MaxProcs
    /\ user \in DOMAIN users
    /\ nextEvent < MaxEvents
    /\ nextEvent' = nextEvent + 1
    /\ procs' = procs \cup {Running("eventSave", user, "", nextEvent + 1)}
    /\ UNCHANGED <<users, events, avails, nextUser, nextAvail, session, resp, confirmedCodes, lastAvail, overlapped, vaultLoad>>

\* one iteration of the do-while loop: nanoid() and the findOne of the code;
\* on a hit the loop draws again
\* variant: the loop returns its first draw without the lookup
drawCodeUnchecked(r, code) ==
    /\ r \in procs
    /\ r.pc = "draw"
    /\ procs' = (procs \ {r}) \cup {[r EXCEPT !.pc = "save", !.code = code]}
    /\ UNCHANGED <<users, events, avails, nextUser, nextEvent, nextAvail, session, resp, confirmedCodes, lastAvail, overlapped, vaultLoad>>

drawCode(r, code) ==
    /\ r \in procs
    /\ r.pc = "draw"
    /\ LET existing == IF r.kind \in {"registerUser", "newCode"}
                       THEN findOneByUserCode(users, code)
                       ELSE findOneByEventCode(events, code)
       IN  procs' = IF existing # NoId THEN procs
                   ELSE (procs \ {r}) \cup {[r EXCEPT !.pc = "save", !.code = code]}
    /\ UNCHANGED <<users, events, avails, nextUser, nextEvent, nextAvail, session, resp, confirmedCodes, lastAvail, overlapped, vaultLoad>>

\* the write of the document carrying the generated code; the answer goes
\* to the client of the request and is not recorded
saveCode(r) ==
    /\ r \in procs
    /\ r.pc = "save"
    /\ procs' = procs \ {r}
    /\ UNCHANGED <<avails, nextUser, nextEvent, nextAvail, session, resp, confirmedCodes, lastAvail, overlapped, vaultLoad>>
    /\ CASE r.kind = "registerUser" ->
              LET doc == [NewUserDoc("n1", r.email, hash(FixedPassword)) EXCEPT !.userCode = r.code] IN
              /\ UNCHANGED events
              /\ users' = IF userIndexesAccept(users, r.user, doc)
                          THEN Put(users, r.user, doc) ELSE users
         [] r.kind = "newCode" ->
              /\ UNCHANGED events
              /\ users' = IF r.user \notin DOMAIN users THEN users
                          ELSE LET doc == [users[r.user] EXCEPT !.userCode = r.code]
                               IN  IF userIndexesAccept(users, r.user, doc)
                                   THEN Put(users, r.user, doc) ELSE users
         [] r.kind = "eventSave" ->
              LET doc == [participants |-> <<r.user>>, admins |-> <<>>, eventCode |-> r.code]
                  s == eventSave(events, users, r.target, doc, TRUE, TRUE)
              IN  /\ events' = s.events
                  /\ users' = s.users

\* the participant of the events saved concurrently
ConcParticipants == {1}

NextConc ==
    \/ \E email \in WellFormedEmails : beginRegister("n1", email, FixedPassword)
    \/ \E user \in UserIds : beginNewCode(user)
    \/ \E user \in ConcParticipants : beginEventSave(user)
    \/ \E r \in procs, code \in Codes : drawCode(r, code)
    \/ \E r \in procs : saveCode(r)

SpecConc == Init /\ [][NextConc]_vars

(***************************************************************************)
(* One code generation at a time: the store does not change while the loop *)
(* draws.  The draw is fair: a code that stays free is eventually drawn.   *)
(***************************************************************************)
NextLoop ==
    \/ procs = {} /\ \E email \in WellFormedEmails : beginRegister("n1", email, FixedPassword)
    \/ procs = {} /\ \E user \in UserIds : beginNewCode(user)
    \/ procs = {} /\ \E user \in ConcParticipants : beginEventSave(user)
    \/ \E r \in procs, code \in Codes : drawCode(r, code)
    \/ \E r \in procs : saveCode(r)

\* the loop draws code and finds it free
DrawFree(code) ==
    \E r \in procs : drawCode(r, code) /\ procs' # procs

SpecLoop == Init /\ [][NextLoop]_vars /\ \A code \in Codes : SF_vars(DrawFree(code))

(***************************************************************************)
(* Concurrent followUser and unfollowUser requests.  A request suspends at *)
(* Promise.all with its two findByIdAndUpdate calls issued: the update of  *)
(* the requesting user's document and the update of the followed user's    *)
(* document reach the store in either order, each atomic on its document,  *)
(* and other requests' updates run in between.  The request answers when   *)
(* both have run.                                                          *)
(***************************************************************************)
Sides == {"user", "followed"}

SamePair(r, user, followedUserId) == {r.user, r.target} = {user, followedUserId}

\* the handler up to Promise.all: the lookup of the followed user and the
\* comparison of the ids; a client does not repeat a request that it has in
\* flight
beginFollow(kind, user, followedUserId) ==
    /\ Cardinality(procs) < MaxProcs
    /\ user \in DOMAIN users
    /\ followedUserId \in DOMAIN users
    /\ ~strictEquals(ObjectId(followedUserId), IdString(user))
    /\ ~\E r \in procs : r.kind = kind /\ r.user = user /\ r.target = followedUserId
    /\ procs' = procs \cup {[pc |-> "update", kind |-> kind, user |-> user,
                             target |-> followedUserId, todo |-> Sides]}
    /\ overlapped' = (overlapped \/ \E r \in procs :
                                       r.kind # kind /\ SamePair(r, user, followedUserId))
    /\ UNCHANGED <<users, events, avails, nextUser, nextEvent, nextAvail, session, resp, confirmedCodes, lastAvail, vaultLoad>>

\* variant: the request answers after the first of its two updates
applyUpdateFirstOnly(r, side) ==
    /\ r \in procs
    /\ r.pc = "update"
    /\ side \in r.todo
    /\ LET id == IF side = "user" THEN r.user ELSE r.target
           x == IF side = "user" THEN r.target ELSE r.user
       IN  IF r.kind = "followUser"
           THEN /\ id \in DOMAIN users => Len(users[id].following) < MaxFollow
                /\ users' = push(users, id, "following", x)
           ELSE users' = pull(users, id, "following", x)
    /\ procs' = procs \ {r}
    /\ UNCHANGED <<events, avails, nextUser, nextEvent, nextAvail, session, resp, confirmedCodes, lastAvail, overlapped, vaultLoad>>

\* one of the two findByIdAndUpdate calls of a request reaches the store
applyUpdate(r, side) ==
    /\ r \in procs
    /\ r.pc = "update"
    /\ side \in r.todo
    /\ LET id == IF side = "user" THEN r.user ELSE r.target
           x == IF side = "user" THEN r.target ELSE r.user
       IN  IF r.kind = "followUser"
           THEN /\ id \in DOMAIN users => Len(users[id].following) < MaxFollow
                /\ users' = push(users, id, "following", x)
           ELSE users' = pull(users, id, "following", x)
    /\ procs' = IF r.todo = {side} THEN procs \ {r}
                ELSE (procs \ {r}) \cup {[r EXCEPT !.todo = @ \ {side}]}
    /\ UNCHANGED <<events, avails, nextUser, nextEvent, nextAvail, session, resp, confirmedCodes, lastAvail, overlapped, vaultLoad>>

\* the pair of users whose requests run concurrently
RacePair == {1, 2}

NextFollowRace ==
    \/ \E email \in WellFormedEmails, userCode \in FixedUserCode :
          registerUser("n1", email, FixedPassword, FixedPassword, userCode)
    \/ \E user \in RacePair : \E followedUserId \in RacePair \ {user} :
          beginFollow("followUser", user, followedUserId)
    \/ \E user \in RacePair : \E followedUserId \in RacePair \ {user} :
          beginFollow("unfollowUser", user, followedUserId)
    \/ \E r \in procs, side \in Sides : applyUpdate(r, side)

SpecFollowRace == Init /\ [][NextFollowRace]_vars

(***************************************************************************)
(* Process start: loadVaultSecrets in and outside production, with every   *)
(* preset environment, listing and read outcome.                           *)
(***************************************************************************)
NextVault ==
    \/ \E nodeEnv \in {"production", "development"}, env \in [VaultKeys -> PresetValues] :
          loadVaultSecrets(nodeEnv, env)
    \/ \E rejects \in BOOLEAN, keys \in KeyLists : listKeys(rejects, keys)
    \/ \E rejects \in BOOLEAN, secretValue \in SecretValues : readSecret(rejects, secretValue)
    \/ checkMissingKeys

SpecVault == Init /\ [][NextVault]_vars

(***************************************************************************)
(* Properties.                                                             *)
(***************************************************************************)
HasEmail(email) == \E u \in DOMAIN users : users[u].email = email

\* C1: a registerUser request with valid input whose email is not in the
\* store adds exactly one user document; that document is unconfirmed, has
\* its expirationDate set and a userCode no other stored user has.
C1_RegisterCreatesOneUser ==
    [][\A r \in WellFormedRegistrations :
          (/\ resp'.op = "registerUser"
           /\ ~HasEmail(r.email)
           /\ (\E c \in Codes : registerUser(r.username, r.email, r.password, r.confirmPassword, c)))
          => \E id \in DOMAIN users' \ DOMAIN users :
                /\ DOMAIN users' = DOMAIN users \cup {id}
                /\ \A o \in DOMAIN users : users'[o] = users[o]
                /\ users'[id].email = r.email
                /\ users'[id].confirmed = FALSE
                /\ users'[id].expirationDate = ArmedExpiry
                /\ \A o \in DOMAIN users : users'[o].userCode # users'[id].userCode]_vars

\* a second user has just been registered next to a stored one
C1_Witness ==
    /\ resp.op = "registerUser" /\ resp.err = None
    /\ Cardinality(DOMAIN users) = 2
    /\ \E u \in DOMAIN users : ~users[u].confirmed /\ resp.mailed = <<users[u].email, users[u].userCode>>

\* C2 (as claimed): once a confirmUser request has succeeded with a userCode,
\* every later confirmUser request with that userCode is answered with
\* UserAlreadyConfirmedError and changes nothing.
C2_LaterCallAlreadyConfirmed ==
    [][\A c \in Codes :
          (resp'.op = "confirmUser" /\ c \in confirmedCodes /\ confirmUser(c))
          => resp'.err = "UserAlreadyConfirmedError" /\ UNCHANGED users]_vars

\* C2 (amended): confirmUser with the userCode of a stored unconfirmed user
\* sets confirmed and clears expirationDate of that user only; with a
\* userCode held by a confirmed user it is answered with
\* UserAlreadyConfirmedError and changes nothing; with a userCode no user
\* holds it is answered with InvalidConfirmationCodeError; and a stored user
\* that is confirmed stays confirmed.
C2_ConfirmUser ==
    [][/\ \A c \in Codes :
            (resp'.op = "confirmUser" /\ confirmUser(c))
            => IF \E u \in DOMAIN users : users[u].userCode = c
               THEN \E u \in DOMAIN users :
                      /\ users[u].userCode = c
                      /\ IF users[u].confirmed
                         THEN /\ resp'.err = "UserAlreadyConfirmedError"
                              /\ UNCHANGED <<users, events, avails, session>>
                         ELSE /\ resp'.err = None
                              /\ users' = [users EXCEPT ![u].confirmed = TRUE,
                                                        ![u].expirationDate = None]
                              /\ users'[u].expirationDate # ArmedExpiry
               ELSE /\ resp'.err = "InvalidConfirmationCodeError"
                    /\ UNCHANGED <<users, events, avails, session>>
       /\ \A u \in DOMAIN users :
            users[u].confirmed => u \in DOMAIN users' /\ users'[u].confirmed]_vars

\* a second confirmUser with the same code has been answered with the error
C2_Witness ==
    /\ resp.op = "confirmUser" /\ resp.err = "UserAlreadyConfirmedError"
    /\ \E u \in DOMAIN users :
         /\ users[u].confirmed /\ users[u].expirationDate = None
         /\ users[u].userCode \in confirmedCodes

\* C7 (as claimed): updateUser leaves the stored password unchanged when the
\* supplied oldPassword does not match the current password.
C7_PasswordNeedsOldPassword ==
    [][\A r \in UpdateRequests :
          (/\ resp'.op = "updateUser"
           /\ isAuthenticated
           /\ ~compare(r.oldPassword, users[session.user].password)
           /\ updateUser(r.newUsername, r.newPassword, r.oldPassword))
          => users'[session.user].password = users[session.user].password]_vars

\* C9: registerUser with valid input and the email of a stored user adds no
\* document and modifies none; it sends the link for the existing userCode
\* and fails with UserNotConfirmedError if that user is unconfirmed, and
\* fails with EmailAlreadyExistsError if it is confirmed; no two stored
\* users share an email.
C9_DuplicateEmailRejected ==
    [][/\ \A r \in WellFormedRegistrations :
            (/\ resp'.op = "registerUser"
             /\ HasEmail(r.email)
             /\ (\E c \in Codes : registerUser(r.username, r.email, r.password, r.confirmPassword, c)))
            => \E ex \in DOMAIN users :
                  /\ users[ex].email = r.email
                  /\ UNCHANGED users
                  /\ IF users[ex].confirmed
                     THEN resp'.err = "EmailAlreadyExistsError" /\ resp'.mailed = NoMail
                     ELSE /\ resp'.err = "UserNotConfirmedError"
                          /\ resp'.mailed = <<r.email, users[ex].userCode>>
       /\ \A u1, u2 \in DOMAIN users' :
            u1 # u2 => users'[u1].email # users'[u2].email]_vars

\* a registration for the email of a confirmed user was rejected while
\* another user is stored
C9_Witness ==
    /\ resp.op = "registerUser" /\ resp.err = "EmailAlreadyExistsError"
    /\ Cardinality(DOMAIN users) = 2

ValidationErrors == {"MissingFieldsError", "InvalidEmailError", "InvalidCredentialsError"}

Untouched ==
    /\ UNCHANGED <<users, events, avails, nextUser, nextEvent, nextAvail, session>>
    /\ resp'.mailed = NoMail

\* C10: a request that controller validation rejects (registerUser with a
\* missing field, malformed email, mismatched or too short password;
\* confirmUser without userCode; loginUserLocal without email or password;
\* newOrUpdateAvailability without id, startDate, endDate or status) raises
\* its domain error and leaves the store and the session as they were and
\* sends no mail.
C10_ValidationBeforePersistence ==
    [][/\ \A r \in DefectiveRegistrations :
            (resp'.op = "registerUser"
               /\ (\E c \in Codes : registerUser(r.username, r.email, r.password, r.confirmPassword, c)))
            => resp'.err \in ValidationErrors /\ Untouched
       /\ (resp'.op = "confirmUser" /\ confirmUser(NoCode))
            => resp'.err = "MissingFieldsError" /\ Untouched
       /\ \A r \in LoginRequests :
            (/\ resp'.op = "loginUserLocal"
             /\ (r.email = "" \/ r.password = <<>>)
             /\ loginUserLocal(r.email, r.password, "absent"))
            => resp'.err = "MissingFieldsError" /\ Untouched
       /\ \A r \in AvailabilityRequests :
            (/\ resp'.op = "newOrUpdateAvailability"
             /\ (r.availabilityId = NoId \/ r.startDate = 0 \/ r.endDate = 0 \/ r.status = "")
             /\ newOrUpdateAvailability(r.availabilityId, "d1", r.startDate, r.endDate, r.status, ""))
            => resp'.err = "MissingFieldsError" /\ Untouched]_vars

\* a registration was rejected by validation while users, a session and an
\* availability exist
C10_Witness ==
    /\ resp.op = "registerUser" /\ resp.err \in ValidationErrors
    /\ DOMAIN users # {} /\ DOMAIN avails # {} /\ session.user # NoId

\* C3: under every interleaving of concurrent code generations (each draws
\* a code, looks it up and redraws on a hit, then saves), no two stored
\* users have the same userCode and no two stored events the same eventCode.
C3_CodesUnique ==
    /\ \A u1, u2 \in DOMAIN users : u1 # u2 => users[u1].userCode # users[u2].userCode
    /\ \A e1, e2 \in DOMAIN events : e1 # e2 => events[e1].eventCode # events[e2].eventCode

\* two generations run concurrently, both past their lookup with the same
\* free code, next to a stored user
C3_Witness ==
    /\ \E r1, r2 \in procs :
         /\ r1 # r2
         /\ r1.pc = "save" /\ r2.pc = "save"
         /\ r1.code = r2.code
         /\ r1.kind \in {"registerUser", "newCode"}
         /\ r2.kind \in {"registerUser", "newCode"}
    /\ DOMAIN users # {}

\* C4 (as claimed): after a removal of user U that completes without error,
\* U's id is in the following array of no stored user and in the
\* participants array of no stored event.
C4_RemovalScrubsReferences ==
    [][\A u \in UserIds, strict \in BOOLEAN :
          (resp'.op = "removeUser" /\ resp'.err = None /\ removeUser(u, strict))
          => /\ \A o \in DOMAIN users' : u \notin Range(users'[o].following)
             /\ \A e \in DOMAIN events' : u \notin Range(events'[e].participants)]_vars

\* C5 (as claimed): when a save of an event with an empty participants list
\* completes (a new event without participants, or an event whose last
\* participant a user removal scrubbed), the event is not in the store.
C5_EmptyEventNotStored ==
    [][/\ \A strict \in BOOLEAN :
            (resp'.op = "createEvent" /\ resp'.err = None /\ (\E c \in Codes : createEvent(FALSE, strict, c)))
            => nextEvent' \notin DOMAIN events'
       /\ \A u \in UserIds, strict \in BOOLEAN :
            (resp'.op = "removeUser" /\ resp'.err = None /\ removeUser(u, strict))
            => \A e \in Range(users[u].events) :
                  (e \in DOMAIN events /\ Range(events[e].participants) \subseteq {u})
                  => e \notin DOMAIN events']_vars

\* C6: after a removal of event E that completes without error, E is in the
\* events list of none of its participants, and every other user document
\* and every other field of the participants is unchanged.
C6_EventRemovalScrubsParticipants ==
    [][\A e \in EventIds :
          (resp'.op = "removeEvent" /\ resp'.err = None /\ removeEvent(e))
          => /\ e \notin DOMAIN events'
             /\ DOMAIN users' = DOMAIN users
             /\ \A u \in DOMAIN users :
                  IF u \in Range(events[e].participants)
                  THEN /\ e \notin Range(users'[u].events)
                       /\ users'[u] = [users[u] EXCEPT !.events = Filter(@, e)]
                  ELSE users'[u] = users[u]]_vars

\* an event with two participants has been removed; one of them still
\* lists another event
C6_Witness ==
    /\ resp.op = "removeEvent" /\ resp.err = None
    /\ nextEvent = 2 /\ Cardinality(DOMAIN events) = 1
    /\ Cardinality(DOMAIN users) = 2
    /\ \E u \in DOMAIN users : users[u].events = <<>>
    /\ \E u \in DOMAIN users : users[u].events # <<>>

\* C8 (as claimed): no user's following array contains the user's own id.
C8_NoSelfFollow ==
    \A u \in DOMAIN users : u \notin Range(users[u].following)

\* the values of stayLoggedIn with which a request asks to stay logged in
AsksToStayLoggedIn == {"string_true", "boolean_true"}

\* C11 (as claimed): loginUserLocal with a correct password sets the session
\* to the user with cookie maxAge the persistent expiry when the request
\* asks for stayLoggedIn = true and the default expiry otherwise, the
\* persistent expiry being the longer; with a wrong password it answers 401
\* and leaves the session as it was.
C11_StayLoggedInPersistent ==
    [][/\ SessionPersistentExpiry > SessionExpiry
       /\ \A r \in LoginRequests, s \in StayLoggedInValues :
            (/\ resp'.op = "loginUserLocal"
             /\ r.email # "" /\ r.password # <<>>
             /\ loginUserLocal(r.email, r.password, s))
            => IF localStrategy(r.email, r.password) # NoId
               THEN /\ resp'.err = None
                    /\ session'.user = localStrategy(r.email, r.password)
                    /\ session'.maxAge = IF s \in AsksToStayLoggedIn
                                         THEN SessionPersistentExpiry * 1000
                                         ELSE SessionExpiry * 1000
               ELSE /\ resp'.err = "401"
                    /\ UNCHANGED session]_vars

\* C12 (as claimed): of two successive successful newOrUpdateAvailability
\* requests with the same id, the second updates the record the first one
\* wrote and creates no record.
C12_CreateOrUpdateByClientId ==
    [][\A r \in AvailabilityRequests :
          (/\ resp'.op = "newOrUpdateAvailability" /\ resp'.err = None
           /\ lastAvail.requested = r.availabilityId
           /\ newOrUpdateAvailability(r.availabilityId, "d1", r.startDate, r.endDate, r.status, ""))
          => /\ lastAvail'.written = lastAvail.written
             /\ DOMAIN avails' = DOMAIN avails]_vars

\* C13 (as claimed): after newOrUpdateAvailability creates a record, its id
\* is in the stored availabilities list of the requesting user, so that
\* getAvailabilities by that user returns it, and in no other user's list.
C13_NewAvailabilityOwned ==
    [][\A r \in AvailabilityRequests :
          (/\ resp'.op = "newOrUpdateAvailability" /\ resp'.err = None
           /\ r.availabilityId \notin DOMAIN avails
           /\ newOrUpdateAvailability(r.availabilityId, "d1", r.startDate, r.endDate, r.status, ""))
          => /\ nextAvail' \in Range(getAvailabilities(users', avails', session.user))
             /\ \A o \in DOMAIN users' \ {session.user} :
                  nextAvail' \notin Range(users'[o].availabilities)]_vars

\* C14: every stored user is either unconfirmed with expirationDate set or
\* confirmed with no expirationDate; a user becomes confirmed only by a
\* successful confirmUser request; a confirmed user stays stored and
\* confirmed (TTL expiry never deletes it).
C14_UserLifecycle ==
    /\ [](\A u \in DOMAIN users :
            \/ ~users[u].confirmed /\ users[u].expirationDate = ArmedExpiry
            \/ users[u].confirmed /\ users[u].expirationDate = None)
    /\ [][\A u \in DOMAIN users :
            /\ users[u].confirmed => u \in DOMAIN users' /\ users'[u].confirmed
            /\ (~users[u].confirmed /\ u \in DOMAIN users' /\ users'[u].confirmed)
                  => resp'.op = "confirmUser" /\ resp'.err = None]_vars

\* TTL expiry has deleted an unconfirmed user next to a confirmed one
C14_Witness ==
    /\ resp.op = "ttlExpire"
    /\ nextUser = 2 /\ Cardinality(DOMAIN users) = 1
    /\ \E u \in DOMAIN users : users[u].confirmed /\ users[u].expirationDate = None

\* C15 (as claimed): after the TTL index has deleted an unconfirmed user, the
\* user's id is in the following array of no stored user and in the
\* participants array of no stored event.
C15_TtlExpiryCascades ==
    [][\A u \in UserIds :
          (resp'.op = "ttlExpire" /\ ttlExpire(u))
          => /\ \A o \in DOMAIN users' : u \notin Range(users'[o].following)
             /\ \A e \in DOMAIN events' : u \notin Range(events'[e].participants)]_vars

\* C16: when followUser by A for another user B succeeds, B's id is in A's
\* following array and A's id is in B's; when unfollowUser by A for B
\* succeeds, neither following array contains the other's id, however many
\* times A followed B before.
C16_FollowUnfollowBothSides ==
    [][\A b \in UserIds :
          LET a == session.user IN
          /\ (/\ resp'.op = "followUser" /\ resp'.err = None
              /\ b # a /\ followUser(b))
             => /\ b \in Range(users'[a].following)
                /\ a \in Range(users'[b].following)
          /\ (/\ resp'.op = "unfollowUser" /\ resp'.err = None
              /\ b # a /\ unfollowUser(b))
             => /\ b \notin Range(users'[a].following)
                /\ a \notin Range(users'[b].following)]_vars

\* an unfollow between two stored users has succeeded and neither lists the
\* other
C16_Witness ==
    /\ resp.op = "unfollowUser" /\ resp.err = None
    /\ Cardinality(DOMAIN users) = 2
    /\ session.user \in DOMAIN users
    /\ \A u \in DOMAIN users : \A o \in DOMAIN users \ {u} : o \notin Range(users[u].following)

\* C17: followUser and unfollowUser write no followers array: a follow or
\* unfollow request leaves the followers array of every user as it was.
C17_FollowersNeverWritten ==
    [][resp'.op \in {"followUser", "unfollowUser"}
          => \A u \in DOMAIN users :
                u \in DOMAIN users' /\ users'[u].followers = users[u].followers]_vars

\* a follow between two users has succeeded: each lists the other in
\* following
C17_Witness ==
    /\ resp.op = "followUser" /\ resp.err = None
    /\ \E a, b \in DOMAIN users :
         /\ a # b
         /\ b \in Range(users[a].following) /\ a \in Range(users[b].following)
         /\ users[a].followers = <<>> /\ users[b].followers = <<>>

\* an event whose save after the scrub of user u cannot fail: it is stored
\* and has a participant other than u
ScrubSucceeds(e, u) ==
    e \in DOMAIN events /\ Range(events[e].participants) \ {u} # {}

HookErrors == {"UserNotFoundError", "EventNotFoundError", "DocumentNotFoundError"}

\* C18: when the pre-remove hook of a user fails partway, the caller of
\* remove gets the error, the user document stays in the store, and the
\* events scrubbed before the failure stay scrubbed.
C18_PartialCascadeNotRolledBack ==
    [][\A u \in UserIds, strict \in BOOLEAN :
          (resp'.op = "removeUser" /\ resp'.err # None /\ removeUser(u, strict))
          => /\ resp'.err \in HookErrors
             /\ u \in DOMAIN users'
             /\ \A i \in 1 .. Len(users[u].events) :
                  (\A j \in 1 .. i : ScrubSucceeds(users[u].events[j], u))
                  => /\ users[u].events[i] \in DOMAIN events'
                     /\ u \notin Range(events'[users[u].events[i]].participants)]_vars

\* a removal has failed after scrubbing the user from an earlier event: the
\* user is stored and lists an event that no longer lists the user
C18_Witness ==
    /\ resp.op = "removeUser" /\ resp.err \in HookErrors
    /\ \E u \in DOMAIN users : \E e \in Range(users[u].events) :
         /\ e \in DOMAIN events
         /\ events[e].participants # <<>>
         /\ u \notin Range(events[e].participants)

\* C19: the stored password of every user is the digest of a plaintext, the
\* one its registration or its last password-changing updateUser set: a new
\* user is stored with the digest of the registered password, an updateUser
\* with newPassword and oldPassword stores the digest of newPassword, and
\* every other step (confirmUser, newCode, an updateUser without these
\* fields, the scrubs of a removed event) leaves each stored password as it
\* was.
C19_PasswordHashedOnChangeOnly ==
    /\ [](\A u \in DOMAIN users : \E p \in Plaintexts : users[u].password = hash(p))
    /\ [][\A u \in DOMAIN users' :
            IF u \notin DOMAIN users
            THEN /\ resp'.op = "registerUser"
                 /\ \E r \in WellFormedRegistrations, c \in Codes :
                       /\ registerUser(r.username, r.email, r.password, r.confirmPassword, c)
                       /\ users'[u].password = hash(r.password)
            ELSE \/ users'[u].password = users[u].password
                 \/ /\ resp'.op = "updateUser" /\ u = session.user
                    /\ \E r \in UpdateRequests :
                          /\ r.newPassword # <<>> /\ r.oldPassword # <<>>
                          /\ updateUser(r.newUsername, r.newPassword, r.oldPassword)
                          /\ users'[u].password = hash(r.newPassword)]_vars

\* a logged-in user has changed the username only, after having changed the
\* password and having confirmed
C19_Witness ==
    /\ resp.op = "updateUser" /\ resp.err = None
    /\ \E u \in DOMAIN users :
         /\ u = session.user
         /\ users[u].username = "n2"
         /\ users[u].password = hash(P5)
         /\ users[u].confirmed

\* the codes stored in the collection a request generates for
StoredCodes(r) ==
    IF r.kind \in {"registerUser", "newCode"}
    THEN {users[u].userCode : u \in DOMAIN users}
    ELSE {events[e].eventCode : e \in DOMAIN events}

\* a loop is drawing while its collection has a free code
DrawingWithFreeCode == \E r \in procs : r.pc = "draw" /\ Codes \ StoredCodes(r) # {}

\* the loop has returned
Returned == \E r \in procs : r.pc = "save"

\* C20: an iteration that draws a stored code leaves the loop drawing, the
\* loop returns only a code that no document of the collection had at the
\* lookup, and a loop whose collection has a free code eventually returns.
C20_RetryLoop ==
    /\ [][\A r \in procs, code \in Codes :
            drawCode(r, code)
            => IF code \in StoredCodes(r)
               THEN procs' = procs
               ELSE procs' = (procs \ {r}) \cup {[r EXCEPT !.pc = "save", !.code = code]}]_vars
    /\ [](\A r \in procs : r.pc = "save" => r.code \notin StoredCodes(r))
    /\ (DrawingWithFreeCode ~> Returned)

\* a loop has returned a code while another code of its collection is taken
C20_Witness ==
    \E r \in procs :
       /\ r.pc = "save"
       /\ StoredCodes(r) # {}
       /\ r.code \notin StoredCodes(r)

\* C22 (as claimed): a newOrUpdateAvailability request for a new record
\* that has no description is answered with MissingFieldsError and creates
\* no record.
C22_DescriptionRequired ==
    [][\A r \in AvailabilityRequests, preference \in Preferences :
          (/\ resp'.op = "newOrUpdateAvailability"
           /\ r.availabilityId \notin DOMAIN avails
           /\ newOrUpdateAvailability(r.availabilityId, "", r.startDate, r.endDate,
                                      r.status, preference))
          => /\ resp'.err = "MissingFieldsError"
             /\ UNCHANGED <<avails, nextAvail>>]_vars

\* The availability a belongs to user owner: it is referenced from the
\* owner's stored availabilities list, or it is the record the owner's own
\* request created (the id the handler pushes onto the owner's list).
OwnedBy(a, owner) ==
    \/ a \in Range(users[owner].availabilities)
    \/ lastAvail.created = a /\ lastAvail.by = owner

C23_MinimumPasswordLength ==
    [][\A r \in WellFormedRegistrations, userCode \in FixedUserCode :
          registerUser(r.username, r.email, r.password, r.confirmPassword, userCode)
          => IF Len(r.password) < 5
             THEN resp'.err = "InvalidCredentialsError" /\ UNCHANGED <<users, nextUser>>
             ELSE resp'.err # "InvalidCredentialsError"]_vars

\* C21 (as claimed): the admins of every stored event are among its
\* participants, so that no event is locked by an admin who is no longer a
\* participant; this holds after the removal of a user who was an admin.
C21_AdminsAmongParticipants ==
    \A e \in DOMAIN events :
        /\ Range(events[e].admins) \subseteq Range(events[e].participants)
        /\ isLocked(events[e])
              => \E userId \in Range(events[e].participants) : isAdmin(events[e], userId)

\* the follow relation among the stored users is symmetric
FollowSymmetric ==
    \A a \in DOMAIN users, b \in DOMAIN users :
        b \in Range(users[a].following) <=> a \in Range(users[b].following)

\* C24 (as claimed): in every state in which no followUser or unfollowUser
\* request is in flight, B is in A's following exactly when A is in B's
\* following, for every interleaving of concurrent requests.
C24_FollowSymmetricAtRest == procs = {} => FollowSymmetric

\* C24 (amended): the same, for every interleaving in which no followUser
\* request and unfollowUser request on the same pair of users have been in
\* flight together.
C24_FollowSymmetricWithoutOverlap == (procs = {} /\ ~overlapped) => FollowSymmetric

\* two followUser requests on the same pair have run interleaved and both
\* have answered
C24_Witness ==
    /\ procs = {} /\ ~overlapped
    /\ \E a \in DOMAIN users : \E b \in DOMAIN users \ {a} :
          /\ Len(users[a].following) = 2 /\ Range(users[a].following) = {b}
          /\ Len(users[b].following) = 2 /\ Range(users[b].following) = {a}

\* loadVaultSecrets has returned or the process has exited
VaultDone == vaultLoad.pc \in {"returned", "exited"}

InProduction == vaultLoad.nodeEnv = "production"

EveryKeyLoaded ==
    vaultLoad.listed /\ \A key \in Range(vaultLoad.keys) : ~falsy(vaultLoad.env[key])

\* outside production the vault is not read and process.env is unchanged
VaultSkippedOutsideProduction ==
    (VaultDone /\ ~InProduction)
        => /\ vaultLoad.pc = "returned"
           /\ ~vaultLoad.listed /\ vaultLoad.attempted = {}
           /\ vaultLoad.env = vaultLoad.env0

\* in production the function returns only with every listed key non-empty
\* in process.env, and otherwise the process exits with code 1
ReturnsOnlyWhenLoaded ==
    (VaultDone /\ InProduction)
        => IF EveryKeyLoaded
           THEN vaultLoad.pc = "returned"
           ELSE vaultLoad.pc = "exited" /\ vaultLoad.exitCode = 1

\* a failed read does not stop the reads of the remaining keys
EveryKeyRead ==
    (vaultLoad.listed /\ vaultLoad.pc \in {"check", "returned", "exited"})
        => vaultLoad.attempted = Range(vaultLoad.keys)

\* C26 (as claimed): outside production loadVaultSecrets returns without
\* reading the vault and leaves the environment unchanged; in production it
\* returns only if every listed key has a non-empty value in the
\* environment afterwards, and otherwise the process exits with code 1, in
\* particular whenever the read of a key has failed; a failed read does not
\* stop the remaining keys from being read.
C26_ReadFailureExits ==
    /\ VaultSkippedOutsideProduction
    /\ ReturnsOnlyWhenLoaded
    /\ EveryKeyRead
    /\ (VaultDone /\ vaultLoad.failed # {}) => vaultLoad.pc = "exited" /\ vaultLoad.exitCode = 1

\* C26 (amended): the same, where the failed read of a key makes the
\* process exit with code 1 when the environment held no non-empty value
\* for that key at the start.
C26_LoadVaultSecrets ==
    /\ VaultSkippedOutsideProduction
    /\ ReturnsOnlyWhenLoaded
    /\ EveryKeyRead
    /\ (VaultDone /\ \E key \in vaultLoad.failed : falsy(vaultLoad.env0[key]))
          => vaultLoad.pc = "exited" /\ vaultLoad.exitCode = 1

\* the read of the first key failed, the read of a later key stored its
\* secret, and the process exited with code 1
C26_Witness ==
    /\ InProduction /\ vaultLoad.pc = "exited" /\ vaultLoad.exitCode = 1
    /\ Len(vaultLoad.keys) = 2
    /\ vaultLoad.keys[1] \in vaultLoad.failed
    /\ vaultLoad.env[vaultLoad.keys[2]] = "v1"

=============================================================================
